---------------------------- MODULE Spec2Model ----------------------------
(***************************************************************************)
(* Tiled segmentation of tools/classes.py (class SegmentationWithSAM):     *)
(* the tile planner calculate_slice_bboxes, the tile labeler               *)
(* labels_from_sam_masks, and the stitcher stitch_labels with              *)
(* merge_labels_after_stitching, driven by run_sam_on_sliced_image.        *)
(*                                                                         *)
(* Axes follow the source: a box is [(xmin, ymin), (xmax, ymax)], x is     *)
(* numpy axis 0 (length image_lx) and y is numpy axis 1 (length image_ly). *)
(* A raster is a function from <<x, y>> to its value.                      *)
(***************************************************************************)
EXTENDS Integers, Sequences, FiniteSets, TLC

(***************************************************************************)
(* Bounds of the model.                                                    *)
(***************************************************************************)
\* largest image side given to calculate_slice_bboxes in SpecPlan
MaxDim == 4
\* largest slice side given to calculate_slice_bboxes in SpecPlan
MaxSlice == 3
\* overlap ratios are the fractions n / RatioDen
RatioDen == 3
\* largest self.overlap of the pipeline
MaxSkip == 2
\* the image shapes (lx, ly) of the pipeline
ImageShapes == (1..4) \X (1..3)
\* the numbers of objects of a scene, besides a background
SceneSizes == 0..2
\* thresh_eccentricity is a fraction num / EccDen
EccDen == 4
\* the numerators of thresh_eccentricity
EccThresholds == {0, 3, 4}
\* the pairs thresh_area
AreaBounds == {<<1, 3>>, <<2, 2>>}
\* the values of box_safe_margin
Margins == 0..1
\* the shapes (lx, ly) of the images given to the filters
FilterShapes == {<<3, 3>>}
\* the shapes of the images for which the detector reports any list of masks
SmallShapes == {<<3, 1>>}
\* the largest number of masks of such a list
MaxMasks == 3

\* Python values of more than one type: None, a numpy array, a list
None == [type |-> "NoneType"]
Array(a) == [type |-> "ndarray", array |-> a]
List(items) == [type |-> "list", items |-> items]
IsNone(v) == v.type = "NoneType"
IsArray(v) == v.type = "ndarray"
IsList(v) == v.type = "list"

VARIABLES
    \* arguments of calculate_slice_bboxes
    image_height, image_width, slice_height, slice_width,
    overlap_height_ratio, overlap_width_ratio,
    \* locals of calculate_slice_bboxes
    slice_bboxes, y_min, y_max, x_min, x_max, y_overlap, x_overlap,
    \* attributes of SegmentationWithSAM
    image_lx, image_ly, overlap, self_slice_bboxes, self_labels, self_segments,
    \* the scene in front of the detector: the pixel set of every object
    objects,
    \* run_sam_on_sliced_image: tiles done
    idx,
    \* stitch_labels: who called, the accumulator, tiles done, the result
    caller, labels, n, stitch_result,
    \* attributes of SegmentationWithSAM read by the filters
    thresh_area, thresh_eccentricity, box_safe_margin,
    \* the image in front of filter_box_walls: the bounding box of the pixels
    \* that canny marks as edges, <<xmin, xmax, ymin, ymax>>
    edges,
    \* filter_box_walls: its mask, the set of pixels where box is True
    box,
    \* the method that wrote self.labels last, and the raster it was given
    last_pass, labels_in,
    \* attributes of BrainAligner, the handler being connected (self.cid) and
    \* the extent of the moving image (self.ax_mov_img)
    click1, click2, connected, extent,
    \* the last button-press event, and the numbers of events delivered, of
    \* calls of onclick and of calls of set_extent by move_image
    event, presses, handled, moved,
    \* position in the program, and the exception that ended it
    pc, error

planVars == <<image_height, image_width, slice_height, slice_width,
              overlap_height_ratio, overlap_width_ratio,
              slice_bboxes, y_min, y_max, x_min, x_max, y_overlap, x_overlap>>

attrVars == <<image_lx, image_ly, overlap, self_slice_bboxes, self_labels,
              self_segments>>

stitchVars == <<caller, labels, n, stitch_result>>

filterVars == <<thresh_area, thresh_eccentricity, box_safe_margin, edges, box,
                last_pass, labels_in>>

alignerVars == <<click1, click2, connected, extent, event, presses, handled,
                 moved>>

pipeVars == <<attrVars, objects, idx, stitchVars, error, filterVars,
              alignerVars>>

vars == <<planVars, pipeVars, pc>>

(***************************************************************************)
(* Helpers.                                                                *)
(***************************************************************************)
Min(a, b) == IF a <= b THEN a ELSE b
Max(a, b) == IF a >= b THEN a ELSE b

\* Python's int() of the quotient num / den (den > 0): truncation toward zero.
TruncDiv(num, den) ==
    IF num >= 0 THEN num \div den ELSE -((-num) \div den)

\* OverlapPixels with an overlap as wide as the slice itself
OverlapPixels_WholeSlice(num, slice) == slice

\* int(ratio * slice) where the ratio is the fraction num / RatioDen.  The
\* float product of a ratio in [0, 1) and a slice s >= 1 truncates to a value
\* in 0 .. s-1, as the exact quotient does.
OverlapPixels(num, slice) == TruncDiv(num * slice, RatioDen)

\* a box in the source's format [(xmin, ymin), (xmax, ymax)]
Box(xmin, ymin, xmax, ymax) == <<<<xmin, ymin>>, <<xmax, ymax>>>>

\* ClampedBox with the slice cut at the image edge instead of pulled back
ClampedBox_Truncated(xm, ym) ==
    Box(x_min, y_min, Min(image_width, xm), Min(image_height, ym))

\* the box appended when the slice runs past the image (the if branch)
ClampedBox(xm, ym) ==
    LET xmax == Min(image_width, xm)
        ymax == Min(image_height, ym)
        xmin == Max(0, xmax - slice_width)
        ymin == Max(0, ymax - slice_height)
    IN  Box(xmin, ymin, xmax, ymax)

\* SliceBox without the test for a slice that runs past the image
SliceBox_NoClamp(xm, ym) == Box(x_min, y_min, xm, ym)

\* the box appended by one pass of the inner loop
SliceBox(xm, ym) ==
    IF ym > image_height \/ xm > image_width
    THEN ClampedBox(xm, ym)
    ELSE Box(x_min, y_min, xm, ym)

\* NextMin one pixel too far: the next slice starts after a gap
NextMin_OffByOne(max, ov) == max - ov + 1

\* the next slice starts overlap pixels before the end of this one
NextMin(max, ov) == max - ov

(***************************************************************************)
(* Rasters.  A raster of shape (lx, ly) maps every pixel <<x, y>> with     *)
(* 0 <= x < lx and 0 <= y < ly to an integer.                              *)
(***************************************************************************)
Pixels(lx, ly) == (0..(lx - 1)) \X (0..(ly - 1))

\* numpy.zeros((lx, ly))
Zeros(lx, ly) == [p \in Pixels(lx, ly) |-> 0]

\* the pixels of a raster that hold the value v: labels == v
Carriers(a, v) == {p \in DOMAIN a : a[p] = v}

\* the pixels of a raster in C order: axis 0 outermost
ScanOrder(lx, ly) == [i \in 1..(lx * ly) |-> <<(i - 1) \div ly, (i - 1) % ly>>]

\* len(numpy.unique(a)); numpy.unique(None) is an array of the one element None
CountUnique(v) ==
    IF IsArray(v) THEN Cardinality({v.array[p] : p \in DOMAIN v.array}) ELSE 1

\* label values are stored in a uint8 raster
Uint8Mod == 256

(***************************************************************************)
(* labels_from_sam_masks.  A mask is a record [segmentation, area]: the    *)
(* set of pixels where the boolean array is True, and the detector's area. *)
(***************************************************************************)
\* SortedPosition without reverse=True: ascending area
SortedPosition_Ascending(masks, i) ==
    Cardinality({j \in 1..Len(masks) :
                    \/ masks[j].area < masks[i].area
                    \/ (masks[j].area = masks[i].area /\ j < i)}) + 1

\* place of mask i in sorted(masks, key=area, reverse=True): Python's sort is
\* stable, so masks of equal area keep the order of the list
SortedPosition(masks, i) ==
    Cardinality({j \in 1..Len(masks) :
                    \/ masks[j].area > masks[i].area
                    \/ (masks[j].area = masks[i].area /\ j < i)}) + 1

SortedMasks(masks) ==
    [k \in 1..Len(masks) |->
        masks[CHOOSE i \in 1..Len(masks) : SortedPosition(masks, i) = k]]

\* PaintValue into a raster wide enough for any index
PaintValue_Unbounded(i) == i

\* the value written for the mask at 0-based index i of the sorted list:
\* labels[m] = idx, stored as uint8
PaintValue(i) == i % Uint8Mod

\* the loop over enumerate(sorted_masks), passes k .. Len(sorted)
RECURSIVE PaintFrom(_, _, _)
PaintFrom(lab, sorted, k) ==
    IF k > Len(sorted) THEN lab
    ELSE PaintFrom([p \in DOMAIN lab |->
                        IF p \in sorted[k].segmentation
                        THEN PaintValue(k - 1) ELSE lab[p]],
                   sorted, k + 1)

\* labels_from_sam_masks(image, masks) for an image of shape (lx, ly, ...)
labels_from_sam_masks(lx, ly, masks) ==
    IF Len(masks) = 0 THEN None
    ELSE Array(PaintFrom(Zeros(lx, ly), SortedMasks(masks), 1))

(***************************************************************************)
(* skimage's find_boundaries and label, as the stitcher calls them.        *)
(***************************************************************************)
\* neighbours of p under skimage connectivity 1 (edges) or 2 (edges, corners)
Neighbours(p, conn) ==
    {q \in ((p[1] - 1)..(p[1] + 1)) \X ((p[2] - 1)..(p[2] + 1)) :
        /\ q # p
        /\ conn = 1 => (q[1] = p[1] \/ q[2] = p[2])}

\* find_boundaries(a, connectivity=1, mode="inner", background=0): a nonzero
\* pixel with a neighbour inside the raster that holds another value
InnerBoundary(a, conn) ==
    {p \in DOMAIN a :
        /\ a[p] # 0
        /\ \E q \in Neighbours(p, conn) \cap DOMAIN a : a[q] # a[p]}

\* labels_crop[boundary_matrix > 0] = 0
EraseBoundaries(a) ==
    LET b == InnerBoundary(a, 1)
    IN  [p \in DOMAIN a |-> IF p \in b THEN 0 ELSE a[p]]

\* the connected set of pixels of p's value that holds p
RECURSIVE Grow(_, _, _, _)
Grow(a, conn, S, frontier) ==
    LET new == {q \in (UNION {Neighbours(f, conn) : f \in frontier})
                        \cap DOMAIN a :
                    q \notin S /\ \A f \in frontier : a[q] = a[f]}
    IN  IF new = {} THEN S ELSE Grow(a, conn, S \cup new, new)

Component(a, conn, p) == Grow(a, conn, {p}, {p})

\* skimage.measure.label(a, connectivity=conn): the connected components of
\* equal nonzero value, numbered 1, 2, ... in scan order of their first pixel
RECURSIVE LabelFrom(_, _, _, _, _, _)
LabelFrom(a, conn, order, i, out, k) ==
    IF i > Len(order) THEN out
    ELSE LET p == order[i]
         IN  IF a[p] = 0 \/ out[p] # 0
             THEN LabelFrom(a, conn, order, i + 1, out, k)
             ELSE LET comp == Component(a, conn, p)
                  IN  LabelFrom(a, conn, order, i + 1,
                                [q \in DOMAIN a |->
                                    IF q \in comp THEN k + 1 ELSE out[q]],
                                k + 1)

\* Label that numbers nothing: the raster keeps the values it came with
Label_Skipped(a, lx, ly, conn) == a

Label(a, lx, ly, conn) ==
    LabelFrom(a, conn, ScanOrder(lx, ly), 1, Zeros(lx, ly), 0)

(***************************************************************************)
(* merge_labels_after_stitching.                                           *)
(***************************************************************************)
\* the 3 x 3 window of the two inner loops, in the order they visit it
Window(r, c) ==
    <<<<r - 1, c - 1>>, <<r - 1, c>>, <<r - 1, c + 1>>,
      <<r, c - 1>>,     <<r, c>>,     <<r, c + 1>>,
      <<r + 1, c - 1>>, <<r + 1, c>>, <<r + 1, c + 1>>>>

\* the pixels whose neighbours the scan inspects
IsScanned(r, c, rmax, cmax) == 0 < r /\ r < rmax - 1 /\ 0 < c /\ c < cmax - 1

\* MergeAt that clears the pixels of the other label instead of renaming them
MergeAt_Clears(lab, r, c, j) ==
    LET sub == Window(r, c)[j]
    IN  IF lab[sub] # 0 /\ lab[sub] # lab[r, c]
        THEN LET target == lab[sub]
             IN  [p \in DOMAIN lab |-> IF lab[p] = target THEN 0 ELSE lab[p]]
        ELSE lab

\* one pass of the innermost loop at window place j of centre (r, c)
MergeAt(lab, r, c, j) ==
    LET sub == Window(r, c)[j]
    IN  IF lab[sub] # 0 /\ lab[sub] # lab[r, c]
        THEN LET target == lab[sub]
             IN  [p \in DOMAIN lab |->
                    IF lab[p] = target THEN lab[r, c] ELSE lab[p]]
        ELSE lab

\* the loops over r, c and the window, from pass i on (9 passes per pixel)
RECURSIVE MergeFrom(_, _, _, _)
MergeFrom(lab, rmax, cmax, i) ==
    IF i >= rmax * cmax * 9 THEN lab
    ELSE LET r == (i \div 9) \div cmax
             c == (i \div 9) % cmax
         IN  IF IsScanned(r, c, rmax, cmax) /\ lab[r, c] > 0
             THEN MergeFrom(MergeAt(lab, r, c, (i % 9) + 1),
                            rmax, cmax, i + 1)
             ELSE MergeFrom(lab, rmax, cmax, i + 9 - (i % 9))

merge_labels_after_stitching(lab, rmax, cmax) ==
    MergeFrom(lab, rmax, cmax, 0)

(***************************************************************************)
(* calculate_slice_bboxes, one action per step of its two loops.           *)
(***************************************************************************)
\* a list or a coordinate past these limits belongs to a run that never ends
MaxBoxes == (MaxDim + 1) * (MaxDim + 1)
MaxCoord == MaxDim + MaxSlice + 2

CalcStart ==
    /\ pc = "call"
    /\ slice_bboxes' = <<>>
    /\ y_max' = 0
    /\ y_min' = 0
    /\ y_overlap' = OverlapPixels(overlap_height_ratio, slice_height)
    /\ x_overlap' = OverlapPixels(overlap_width_ratio, slice_width)
    /\ pc' = "row"
    /\ UNCHANGED <<image_height, image_width, slice_height, slice_width,
                   overlap_height_ratio, overlap_width_ratio, x_min, x_max>>
    /\ UNCHANGED pipeVars

\* while y_max < image_height: the body up to the inner loop
RowEnter ==
    /\ pc = "row"
    /\ y_max < image_height
    /\ y_min >= -MaxCoord
    /\ x_min' = 0
    /\ x_max' = 0
    /\ y_max' = y_min + slice_height
    /\ pc' = "col"
    /\ UNCHANGED <<image_height, image_width, slice_height, slice_width,
                   overlap_height_ratio, overlap_width_ratio,
                   slice_bboxes, y_min, y_overlap, x_overlap>>
    /\ UNCHANGED pipeVars

\* while x_max < image_width: one pass of the inner loop
ColStep ==
    /\ pc = "col"
    /\ x_max < image_width
    /\ Len(slice_bboxes) < MaxBoxes
    /\ LET xm == x_min + slice_width
       IN  /\ x_max' = xm
           /\ slice_bboxes' = Append(slice_bboxes, SliceBox(xm, y_max))
           /\ x_min' = NextMin(xm, x_overlap)
    /\ UNCHANGED <<image_height, image_width, slice_height, slice_width,
                   overlap_height_ratio, overlap_width_ratio,
                   y_min, y_max, y_overlap, x_overlap, pc>>
    /\ UNCHANGED pipeVars

\* the inner loop ends: y_min = y_max - y_overlap
RowAdvance ==
    /\ pc = "col"
    /\ ~(x_max < image_width)
    /\ y_min' = NextMin(y_max, y_overlap)
    /\ pc' = "row"
    /\ UNCHANGED <<image_height, image_width, slice_height, slice_width,
                   overlap_height_ratio, overlap_width_ratio,
                   slice_bboxes, y_max, x_min, x_max, y_overlap, x_overlap>>
    /\ UNCHANGED pipeVars

\* the outer loop ends: return slice_bboxes
CalcReturn ==
    /\ pc = "row"
    /\ ~(y_max < image_height)
    /\ pc' = "returned"
    /\ UNCHANGED <<planVars, pipeVars>>

\* the locals of calculate_slice_bboxes before the call
PlanLocalsUnset ==
    /\ slice_bboxes = <<>>
    /\ y_min = 0 /\ y_max = 0 /\ x_min = 0 /\ x_max = 0
    /\ y_overlap = 0 /\ x_overlap = 0

\* the attributes and locals of the pipeline before any of it ran
PipelineUnset ==
    /\ self_slice_bboxes = None
    /\ self_labels = None
    /\ self_segments = None
    /\ idx = 0
    /\ caller = ""
    /\ labels = <<>>
    /\ n = 0
    /\ stitch_result = None
    /\ error = ""
    /\ box = {}
    /\ last_pass = ""
    /\ labels_in = None

\* no BrainAligner has been constructed
NoAligner ==
    /\ click1 = None /\ click2 = None
    /\ connected = FALSE
    /\ extent = <<>>
    /\ event = None
    /\ presses = 0 /\ handled = 0 /\ moved = 0

\* the filters' attributes, and an image whose edges reach its frame
FilterDefaults ==
    /\ thresh_area = <<1, 3>>
    /\ thresh_eccentricity = 3
    /\ box_safe_margin = 1
    /\ edges = <<0, image_lx - 1, 0, image_ly - 1>>

\* calculate_slice_bboxes called on its own with arguments of every kind
InitPlan ==
    /\ image_height \in 0..MaxDim
    /\ image_width \in 0..MaxDim
    /\ slice_height \in -1..MaxSlice
    /\ slice_width \in -1..MaxSlice
    /\ overlap_height_ratio \in -1..(RatioDen + 1)
    /\ overlap_width_ratio \in -1..(RatioDen + 1)
    /\ PlanLocalsUnset
    /\ image_lx = image_width /\ image_ly = image_height
    /\ overlap = 0
    /\ objects = <<>>
    /\ FilterDefaults
    /\ PipelineUnset
    /\ NoAligner
    /\ pc = "call"

NextPlan == CalcStart \/ RowEnter \/ ColStep \/ RowAdvance \/ CalcReturn

SpecPlan == InitPlan /\ [][NextPlan]_vars

\* the interpreter goes on with the call as long as it has a step to take
SpecPlanFair == SpecPlan /\ WF_vars(NextPlan)

(***************************************************************************)
(* The detector.  SamAutomaticMaskGenerator.generate is outside the        *)
(* repository: here it reports, for a crop, one mask per object of the     *)
(* scene that shows in the crop, in the order of the scene, with the       *)
(* object's pixels inside the crop (in crop coordinates) and their count   *)
(* as its area.                                                            *)
(***************************************************************************)
BoxXMin(b) == b[1][1]
BoxYMin(b) == b[1][2]
BoxXMax(b) == b[2][1]
BoxYMax(b) == b[2][2]

\* the image pixels of self.image[xmin:xmax, ymin:ymax]
InBox(x, y, b) ==
    /\ BoxXMin(b) <= x /\ x < BoxXMax(b)
    /\ BoxYMin(b) <= y /\ y < BoxYMax(b)

\* the pixels of an object seen in the crop of box b, in crop coordinates
Seen(obj, b) ==
    {<<p[1] - BoxXMin(b), p[2] - BoxYMin(b)>> :
        p \in {q \in obj : InBox(q[1], q[2], b)}}

RECURSIVE MasksFrom(_, _)
MasksFrom(i, b) ==
    IF i > Len(objects) THEN <<>>
    ELSE LET m == Seen(objects[i], b)
         IN  IF m = {} THEN MasksFrom(i + 1, b)
             ELSE <<[segmentation |-> m, area |-> Cardinality(m)]>>
                    \o MasksFrom(i + 1, b)

\* mask_generator.generate(image_crop)
Generate(b) == MasksFrom(1, b)

(***************************************************************************)
(* slice_image and run_sam_on_sliced_image.                                *)
(***************************************************************************)
PyInt(k) == [type |-> "int", value |-> k]

\* slice_image stores the planner's list in self.slice_bboxes
SliceImageReturn ==
    /\ pc = "returned"
    /\ self_slice_bboxes' = List(slice_bboxes)
    /\ pc' = "sliced"
    /\ UNCHANGED <<planVars, alignerVars, filterVars,
                   image_lx, image_ly, overlap, self_labels,
                   self_segments, objects, idx, stitchVars, error>>

\* run_sam_on_sliced_image before slice_image: it prints and returns
RunSamWithoutSlices ==
    /\ pc = "call"
    /\ IsNone(self_slice_bboxes)
    /\ pc' = "finished"
    /\ UNCHANGED <<planVars, pipeVars>>

\* the rectangles of pixels of an image of shape (lx, ly)
Rectangles(lx, ly) ==
    {(t[1]..t[2]) \X (t[3]..t[4]) :
        t \in {u \in (0..(lx - 1)) \X (0..(lx - 1))
                        \X (0..(ly - 1)) \X (0..(ly - 1)) :
                    u[1] <= u[2] /\ u[3] <= u[4]}}

\* the place in scan order of the first pixel of a rectangle
FirstPixel(rect, ly) ==
    CHOOSE k \in 0..(MaxDim * MaxDim) :
        /\ <<k \div ly, k % ly>> \in rect
        /\ \A p \in rect : p[1] * ly + p[2] >= k

\* lists of k disjoint rectangles, in scan order of their first pixels
RECURSIVE DisjointLists(_, _, _)
DisjointLists(R, ly, k) ==
    IF k = 0 THEN {<<>>}
    ELSE {Append(t[1], t[2]) :
            t \in {u \in DisjointLists(R, ly, k - 1) \X R :
                    \A i \in 1..Len(u[1]) :
                        /\ u[1][i] \cap u[2] = {}
                        /\ FirstPixel(u[1][i], ly) < FirstPixel(u[2], ly)}}

\* the scenes: disjoint rectangular objects, with or without a background
\* that fills the image and that the detector reports as one more mask
Scenes(lx, ly) ==
    LET lists == UNION {DisjointLists(Rectangles(lx, ly), ly, k) :
                            k \in SceneSizes}
    IN  lists \cup {<<Pixels(lx, ly)>> \o l : l \in lists}

\* run_sam_on_sliced_image up to its loop over the slices: the model is
\* loaded, and what it will see in the image is settled
RunSamCall ==
    /\ pc = "sliced"
    /\ ~IsNone(self_slice_bboxes)
    /\ objects' \in Scenes(image_lx, image_ly)
    /\ idx' = 0
    /\ pc' = "sam"
    /\ UNCHANGED <<planVars, alignerVars, filterVars, attrVars, stitchVars, error>>

\* the dictionary stored for the slice at slice_box
TileData(slice_box) ==
    LET labels_crop ==
            labels_from_sam_masks(BoxXMax(slice_box) - BoxXMin(slice_box),
                                  BoxYMax(slice_box) - BoxYMin(slice_box),
                                  Generate(slice_box))
    IN  [crop |-> slice_box,
         segments |-> CountUnique(labels_crop),
         labels |-> labels_crop]

\* a variant that puts the new result in front of the stored ones
Stored_InFront(items, data) == <<data>> \o items

\* self.labels.append(data)
Stored(items, data) == Append(items, data)

\* one pass of the loop over the slices: detect, label, store
SamTile ==
    /\ pc = "sam"
    /\ idx < Len(self_slice_bboxes.items)
    /\ LET data == TileData(self_slice_bboxes.items[idx + 1])
       IN  self_labels' = IF idx = 0 THEN List(<<data>>)
                          ELSE List(Stored(self_labels.items, data))
    /\ idx' = idx + 1
    /\ UNCHANGED <<planVars, alignerVars, filterVars,
                   image_lx, image_ly, overlap, self_slice_bboxes,
                   self_segments, objects, stitchVars, error, pc>>

\* DetectorFails with the error swallowed: the tile is skipped, the loop goes on
DetectorFails_SkipTile ==
    /\ pc = "sam"
    /\ idx < Len(self_slice_bboxes.items)
    /\ error' = "DetectorFailure"
    /\ idx' = idx + 1
    /\ UNCHANGED <<planVars, alignerVars, filterVars, attrVars, objects, stitchVars, pc>>

\* the detector raises: nothing catches it
DetectorFails ==
    /\ pc = "sam"
    /\ idx < Len(self_slice_bboxes.items)
    /\ error' = "DetectorFailure"
    /\ pc' = "raised"
    /\ UNCHANGED <<planVars, alignerVars, filterVars, attrVars, objects, idx, stitchVars>>

(***************************************************************************)
(* stitch_labels.                                                          *)
(***************************************************************************)
\* SkipX with the planner's pixel overlap for the width left out
SkipX_PlannerOverlap(b) == IF BoxXMin(b) > 0 THEN x_overlap ELSE 0

\* the four assignments into the accumulator: a tile that does not start at 0
\* on an axis leaves out its first self.overlap pixels on that axis
SkipX(b) == IF BoxXMin(b) > 0 THEN overlap ELSE 0
SkipY(b) == IF BoxYMin(b) > 0 THEN overlap ELSE 0

Written(b) ==
    {p \in DOMAIN labels :
        /\ BoxXMin(b) + SkipX(b) <= p[1] /\ p[1] < BoxXMax(b)
        /\ BoxYMin(b) + SkipY(b) <= p[2] /\ p[2] < BoxYMax(b)}

Composite(labels_crop, b) ==
    [p \in DOMAIN labels |->
        IF p \in Written(b)
        THEN labels_crop[p[1] - BoxXMin(b), p[2] - BoxYMin(b)]
        ELSE labels[p]]

\* self.connectivity
connectivity == 1

\* stitch_labels up to its loop, called by `who`
StitchEnter(who) ==
    /\ caller' = who
    /\ IF ~IsList(self_labels)
       THEN \* len(None)
            /\ error' = "TypeError"
            /\ pc' = "raised"
            /\ UNCHANGED <<self_labels, self_segments, labels, n,
                           stitch_result>>
       ELSE IF Len(self_labels.items) <= 1
       THEN \* "There is nothing to stitch.": return None
            /\ stitch_result' = None
            /\ IF who = "run_sam_on_sliced_image"
               THEN /\ self_labels' = None
                    /\ self_segments' = PyInt(CountUnique(None))
               ELSE UNCHANGED <<self_labels, self_segments>>
            /\ pc' = "finished"
            /\ UNCHANGED <<labels, n, error>>
       ELSE /\ labels' = Zeros(image_lx, image_ly)
            /\ n' = 0
            /\ pc' = "composite"
            /\ UNCHANGED <<self_labels, self_segments, stitch_result, error>>
    /\ UNCHANGED <<planVars, alignerVars, filterVars,
                   image_lx, image_ly, overlap, self_slice_bboxes,
                   objects, idx>>

\* the last line but one of run_sam_on_sliced_image
RunSamStitch ==
    /\ pc = "sam"
    /\ idx = Len(self_slice_bboxes.items)
    /\ StitchEnter("run_sam_on_sliced_image")

\* a client fills self.labels with an empty list of tile results
AssignEmptyLabels ==
    /\ pc = "call"
    /\ IsNone(self_labels)
    /\ self_labels' = List(<<>>)
    /\ UNCHANGED <<planVars, alignerVars, filterVars,
                   image_lx, image_ly, overlap, self_slice_bboxes,
                   self_segments, objects, idx, stitchVars, error, pc>>

\* a client calls stitch_labels itself
StitchCall ==
    /\ pc = "call"
    /\ StitchEnter("client")

\* one pass of the loop over the tiles, up to the first re-labelling: the
\* boundaries are erased in the tile's own array, then the tile is copied
StitchComposite ==
    /\ pc = "composite"
    /\ n < Len(self_labels.items)
    /\ LET val == self_labels.items[n + 1]
       IN  IF IsNone(val.labels)
           THEN \* find_boundaries(None, ...)
                /\ error' = "AttributeError"
                /\ pc' = "raised"
                /\ UNCHANGED <<self_labels, labels>>
           ELSE LET labels_crop == EraseBoundaries(val.labels.array)
                IN  /\ self_labels' =
                            List([self_labels.items EXCEPT
                                    ![n + 1].labels = Array(labels_crop)])
                    /\ labels' = Composite(labels_crop, val.crop)
                    /\ pc' = "relabel"
                    /\ UNCHANGED error
    /\ UNCHANGED <<planVars, alignerVars, filterVars,
                   image_lx, image_ly, overlap, self_slice_bboxes,
                   self_segments, objects, idx, caller, n, stitch_result>>

\* labels = label(labels, connectivity=self.connectivity), before the merge
StitchRelabel ==
    /\ pc = "relabel"
    /\ labels' = Label(labels, image_lx, image_ly, connectivity)
    /\ pc' = "merge"
    /\ UNCHANGED <<planVars, alignerVars, filterVars, attrVars, objects, idx, caller, n,
                   stitch_result, error>>

\* labels = self.merge_labels_after_stitching(labels)
StitchMerge ==
    /\ pc = "merge"
    /\ labels' = merge_labels_after_stitching(labels, image_lx, image_ly)
    /\ pc' = "relabel2"
    /\ UNCHANGED <<planVars, alignerVars, filterVars, attrVars, objects, idx, caller, n,
                   stitch_result, error>>

\* labels = label(labels, connectivity=self.connectivity), after the merge
StitchRelabel2 ==
    /\ pc = "relabel2"
    /\ labels' = Label(labels, image_lx, image_ly, connectivity)
    /\ n' = n + 1
    /\ pc' = "composite"
    /\ UNCHANGED <<planVars, alignerVars, filterVars, attrVars, objects, idx, caller,
                   stitch_result, error>>

\* return labels; run_sam_on_sliced_image stores it and counts its values
StitchReturn ==
    /\ pc = "composite"
    /\ n = Len(self_labels.items)
    /\ stitch_result' = Array(labels)
    /\ IF caller = "run_sam_on_sliced_image"
       THEN /\ self_labels' = Array(labels)
            /\ self_segments' = PyInt(CountUnique(Array(labels)))
       ELSE UNCHANGED <<self_labels, self_segments>>
    /\ pc' = "finished"
    /\ UNCHANGED <<planVars, alignerVars, filterVars,
                   image_lx, image_ly, overlap, self_slice_bboxes,
                   objects, idx, caller, labels, n, error>>

(***************************************************************************)
(* The pipeline: an image sliced as slice_image slices it (square slices,  *)
(* one overlap ratio for both axes, planned over the image's own shape),   *)
(* then detected tile by tile and stitched.  The slice side and the ratio  *)
(* are drawn from the planner's bounds instead of slice_image's            *)
(* 10 * characteristic_dimension and 0.2, and self.overlap from            *)
(* 1..MaxSkip instead of its default 20: all three are attributes a client *)
(* sets.                                                                   *)
(***************************************************************************)
Init ==
    /\ \E shape \in ImageShapes : image_lx = shape[1] /\ image_ly = shape[2]
    /\ overlap \in 1..MaxSkip
    /\ objects = <<>>
    /\ image_height = image_ly
    /\ image_width = image_lx
    /\ slice_height \in 2..MaxSlice
    /\ slice_width = slice_height
    /\ overlap_height_ratio \in 0..(RatioDen - 1)
    /\ overlap_width_ratio = overlap_height_ratio
    /\ PlanLocalsUnset
    /\ FilterDefaults
    /\ PipelineUnset
    /\ NoAligner
    /\ pc = "call"

Next ==
    \/ NextPlan
    \/ SliceImageReturn \/ RunSamWithoutSlices \/ RunSamCall
    \/ SamTile \/ DetectorFails \/ RunSamStitch
    \/ AssignEmptyLabels \/ StitchCall
    \/ StitchComposite \/ StitchRelabel \/ StitchMerge \/ StitchRelabel2
    \/ StitchReturn

Spec == Init /\ [][Next]_vars

(***************************************************************************)
(* The same pipeline in front of objects of any form: a background and up  *)
(* to two disjoint objects on one image sliced into four tiles.            *)
(***************************************************************************)
\* the image shape, the slice side and self.overlap of this pipeline
FormsShape == <<3, 3>>
FormsSlice == 2
FormsSkip == 1

\* the nonempty sets of pixels of an image of shape (lx, ly)
Forms(lx, ly) == (SUBSET Pixels(lx, ly)) \ {{}}

FormScenes(lx, ly) ==
    {<<Pixels(lx, ly)>> \o l :
        l \in UNION {DisjointLists(Forms(lx, ly), ly, k) : k \in SceneSizes}}

\* run_sam_on_sliced_image up to its loop, in front of such a scene
RunSamCallForms ==
    /\ pc = "sliced"
    /\ ~IsNone(self_slice_bboxes)
    /\ objects' \in FormScenes(image_lx, image_ly)
    /\ idx' = 0
    /\ pc' = "sam"
    /\ UNCHANGED <<planVars, alignerVars, filterVars, attrVars, stitchVars, error>>

InitForms ==
    /\ image_lx = FormsShape[1] /\ image_ly = FormsShape[2]
    /\ overlap = FormsSkip
    /\ objects = <<>>
    /\ image_height = image_ly
    /\ image_width = image_lx
    /\ slice_height = FormsSlice
    /\ slice_width = slice_height
    /\ overlap_height_ratio \in {0, RatioDen - 1}
    /\ overlap_width_ratio = overlap_height_ratio
    /\ PlanLocalsUnset
    /\ FilterDefaults
    /\ PipelineUnset
    /\ NoAligner
    /\ pc = "call"

NextForms ==
    \/ NextPlan
    \/ SliceImageReturn \/ RunSamCallForms \/ SamTile \/ RunSamStitch
    \/ StitchComposite \/ StitchRelabel \/ StitchMerge \/ StitchRelabel2
    \/ StitchReturn

SpecForms == InitForms /\ [][NextForms]_vars

(***************************************************************************)
(* regionprops, clear_border and polygon2mask of skimage, as the filters   *)
(* call them.                                                              *)
(***************************************************************************)
\* the sum of f over the set S
RECURSIVE Sum(_, _)
Sum(f, S) ==
    IF S = {} THEN 0
    ELSE LET x == CHOOSE y \in S : TRUE
         IN  f[x] + Sum(f, S \ {x})

\* regionprops(label_image): one region for every nonzero value of the raster,
\* made of all the pixels that hold the value
RegionLabels(a) == {a[p] : p \in DOMAIN a} \ {0}

\* region.area
Area(a, v) == Cardinality(Carriers(a, v))

\* the central moments of order two of a region R of A pixels, times A
ScaledMoments(R) ==
    LET A == Cardinality(R)
        Sx == Sum([p \in R |-> p[1]], R)
        Sy == Sum([p \in R |-> p[2]], R)
        Sxx == Sum([p \in R |-> p[1] * p[1]], R)
        Syy == Sum([p \in R |-> p[2] * p[2]], R)
        Sxy == Sum([p \in R |-> p[1] * p[2]], R)
    IN  [m20 |-> A * Sxx - Sx * Sx,
         m02 |-> A * Syy - Sy * Sy,
         m11 |-> A * Sxy - Sx * Sy]

\* region.eccentricity < num / EccDen.  The eccentricity is sqrt(1 - l2 / l1)
\* for the eigenvalues l1 >= l2 of the region's inertia tensor, and 0 when
\* l1 = 0.  With s = l1 + l2 and d = l1 - l2 it is below num / EccDen when
\* d * (2 * EccDen^2 - num^2) < num^2 * s; both sides are squared to compare
\* them in integers.
EccentricityBelow(R, num) ==
    LET m == ScaledMoments(R)
        s == m.m20 + m.m02
        d2 == (m.m20 - m.m02) * (m.m20 - m.m02) + 4 * m.m11 * m.m11
        k == 2 * EccDen * EccDen - num * num
    IN  IF s = 0 THEN 0 < num
        ELSE d2 * k * k < num * num * num * num * s * s

\* InAreaBounds with both bounds exclusive
InAreaBounds_Exclusive(area) ==
    thresh_area[1] < area /\ area < thresh_area[2]

\* self.thresh_area[0] <= region.area <= self.thresh_area[1]
InAreaBounds(area) ==
    thresh_area[1] <= area /\ area <= thresh_area[2]

\* the two tests of filter_labels_by_shape on the region of value v
Discarded(a, v) ==
    \/ ~InAreaBounds(Area(a, v))
    \/ EccentricityBelow(Carriers(a, v), thresh_eccentricity)

\* ShapeFilter that discards nothing and does not label again
ShapeFilter_KeepsAll(a, lx, ly) == a

\* the raster of filter_labels_by_shape after its loop and its call of label
ShapeFilter(a, lx, ly) ==
    LET gone == {v \in RegionLabels(a) : Discarded(a, v)}
    IN  Label([p \in DOMAIN a |-> IF a[p] \in gone THEN 0 ELSE a[p]],
              lx, ly, 1)

\* the pixels of the first and last row and column
OnBorder(p, lx, ly) ==
    p[1] = 0 \/ p[1] = lx - 1 \/ p[2] = 0 \/ p[2] = ly - 1

\* clear_border(labels): it labels the raster itself with full connectivity
\* and clears every component that has a pixel on the border; the other
\* pixels keep their values
ClearBorder(a, lx, ly) ==
    [p \in DOMAIN a |->
        IF a[p] # 0 /\ \E q \in Component(a, 2, p) : OnBorder(q, lx, ly)
        THEN 0 ELSE a[p]]

\* polygon2mask(gra.shape, ...) for the rectangle of the edges' bounding box
\* widened by box_safe_margin.  The points on the rectangle's sides are in
\* the mask (closed) or only those of its low sides are, by skimage's version
BoxMask(closed) ==
    LET box_xmin == edges[1] - box_safe_margin
        box_xmax == edges[2] + box_safe_margin
        box_ymin == edges[3] - box_safe_margin
        box_ymax == edges[4] + box_safe_margin
    IN  {p \in Pixels(image_lx, image_ly) :
            /\ box_xmin <= p[1]
            /\ p[1] < box_xmax \/ (closed /\ p[1] = box_xmax)
            /\ box_ymin <= p[2]
            /\ p[2] < box_ymax \/ (closed /\ p[2] = box_ymax)}

\* self.labels[box == 0] = 0
BoxWalls(a, mask) == [p \in DOMAIN a |-> IF p \in mask THEN a[p] ELSE 0]

(***************************************************************************)
(* run_sam and the three filters.                                          *)
(***************************************************************************)
\* the lists of 1 .. k sets of S
RECURSIVE ListsUpTo(_, _)
ListsUpTo(S, k) ==
    IF k = 0 THEN {}
    ELSE {<<x>> : x \in S}
            \cup {Append(l, x) : l \in ListsUpTo(S, k - 1), x \in S}

\* what the detector reports for the whole image: nothing, a background, a
\* background and one object of any form, or (small images) any list of masks
RunSamScenes(lx, ly) ==
    LET forms == (SUBSET Pixels(lx, ly)) \ {{}}
    IN  {<<>>, <<Pixels(lx, ly)>>}
            \cup {<<Pixels(lx, ly), f>> : f \in forms}
            \cup (IF <<lx, ly>> \in SmallShapes
                  THEN ListsUpTo(forms, MaxMasks) ELSE {})

\* run_sam: detect on the whole image, label, count
RunSam ==
    /\ pc = "call"
    /\ UNCHANGED <<planVars, alignerVars, image_lx, image_ly, overlap, self_slice_bboxes,
                   idx, stitchVars, error, thresh_area, thresh_eccentricity,
                   box_safe_margin, edges, box, labels_in>>
    /\ objects' \in RunSamScenes(image_lx, image_ly)
    /\ self_labels' =
            labels_from_sam_masks(image_lx, image_ly,
                                  Generate(Box(0, 0, image_lx, image_ly))')
    /\ self_segments' = PyInt(CountUnique(self_labels'))
    /\ last_pass' = "run_sam"
    /\ pc' = "finished"

\* what a filter leaves alone
FilterFrame ==
    UNCHANGED <<planVars, alignerVars, image_lx, image_ly, overlap, self_slice_bboxes,
                objects, idx, stitchVars, error, thresh_area,
                thresh_eccentricity, box_safe_margin, edges, pc>>

\* the filters run on a raster
CanFilter == pc = "finished" /\ IsArray(self_labels)

FilterLabelsByShape ==
    /\ CanFilter
    /\ labels_in' = self_labels
    /\ self_labels' = Array(ShapeFilter(self_labels.array, image_lx, image_ly))
    /\ self_segments' = PyInt(CountUnique(self_labels'))
    /\ last_pass' = "filter_labels_by_shape"
    /\ UNCHANGED box
    /\ FilterFrame

FilterLabelsOnTheBorder ==
    /\ CanFilter
    /\ labels_in' = self_labels
    /\ self_labels' = Array(ClearBorder(self_labels.array, image_lx, image_ly))
    /\ self_segments' = PyInt(CountUnique(self_labels'))
    /\ last_pass' = "filter_labels_on_the_border"
    /\ UNCHANGED box
    /\ FilterFrame

FilterBoxWalls ==
    /\ CanFilter
    /\ \E closed \in BOOLEAN : box' = BoxMask(closed)
    /\ labels_in' = self_labels
    /\ self_labels' = Array(BoxWalls(self_labels.array, box'))
    /\ last_pass' = "filter_box_walls"
    /\ UNCHANGED self_segments
    /\ FilterFrame

\* the bounding boxes of the edges that canny finds: edges that stay away
\* from the image's first row and column where it has more than one
EdgeBoxes(lx, ly) ==
    {<<Min(1, lx - 1), lx - 1, Min(1, ly - 1), ly - 1>>}

\* an object constructed on an image, its filter attributes set by a client
InitFilter ==
    /\ \E shape \in FilterShapes : image_lx = shape[1] /\ image_ly = shape[2]
    /\ overlap = 1
    /\ objects = <<>>
    /\ image_height = image_ly
    /\ image_width = image_lx
    /\ slice_height = 1
    /\ slice_width = 1
    /\ overlap_height_ratio = 0
    /\ overlap_width_ratio = 0
    /\ PlanLocalsUnset
    /\ thresh_area \in AreaBounds
    /\ thresh_eccentricity \in EccThresholds
    /\ box_safe_margin \in Margins
    /\ edges \in EdgeBoxes(image_lx, image_ly)
    /\ PipelineUnset
    /\ NoAligner
    /\ pc = "call"

NextFilter ==
    RunSam \/ FilterLabelsByShape \/ FilterLabelsOnTheBorder \/ FilterBoxWalls

SpecFilter == InitFilter /\ [][NextFilter]_vars

\* an object constructed on a small image, before run_sam
InitRunSam ==
    /\ \E shape \in SmallShapes : image_lx = shape[1] /\ image_ly = shape[2]
    /\ overlap = 1
    /\ objects = <<>>
    /\ image_height = image_ly
    /\ image_width = image_lx
    /\ slice_height = 1
    /\ slice_width = 1
    /\ overlap_height_ratio = 0
    /\ overlap_width_ratio = 0
    /\ PlanLocalsUnset
    /\ FilterDefaults
    /\ PipelineUnset
    /\ NoAligner
    /\ pc = "call"

SpecRunSam == InitRunSam /\ [][RunSam]_vars

(***************************************************************************)
(* labels_from_sam_masks pass by pass, called by run_sam in front of many   *)
(* masks.  The raster is uint8 and idx is a Python int: storing an idx     *)
(* that uint8 cannot hold wraps modulo 256 under NumPy 1 and raises        *)
(* OverflowError under NumPy 2; the repository fixes no version, so either *)
(* can happen.                                                             *)
(***************************************************************************)
\* the largest number of small masks in front of the labeler
ManyMasks == 256
ManyShape == <<2, 1>>

\* a mask over the whole image, a mask on its last pixel, and k masks on its
\* first pixel
ManyMaskScene(lx, ly, k) ==
    <<Pixels(lx, ly), {<<lx - 1, ly - 1>>}>> \o [i \in 1..k |-> {<<0, 0>>}]

\* the mask at place k of sorted(masks, key=area, reverse=True)
SortedMask(masks, k) ==
    masks[CHOOSE i \in 1..Len(masks) : SortedPosition(masks, i) = k]

\* masks = mask_generator.generate(self.image) of run_sam: on the whole image
\* every object of the scene shows, whole
ImageMasks ==
    [i \in 1..Len(objects) |->
        [segmentation |-> objects[i], area |-> Cardinality(objects[i])]]

\* run_sam up to the loop of labels_from_sam_masks
LabelsEnter ==
    /\ pc = "call"
    /\ \E k \in (ManyMasks - 2)..ManyMasks :
            objects' = ManyMaskScene(image_lx, image_ly, k)
    /\ labels' = Zeros(image_lx, image_ly)
    /\ idx' = 0
    /\ pc' = "paint"
    /\ UNCHANGED <<planVars, alignerVars, filterVars, attrVars, caller, n, stitch_result,
                   error>>

\* labels[m] = idx with the value v stored
Painted(m, v) == [p \in DOMAIN labels |-> IF p \in m THEN v ELSE labels[p]]

\* one pass of the loop over enumerate(sorted_masks)
LabelsPass ==
    /\ pc = "paint"
    /\ idx < Len(ImageMasks)
    /\ LET m == SortedMask(ImageMasks, idx + 1).segmentation
       IN  \/ /\ labels' = Painted(m, PaintValue(idx))
              /\ idx' = idx + 1
              /\ UNCHANGED <<error, pc>>
           \/ /\ idx >= Uint8Mod
              /\ error' = "OverflowError"
              /\ pc' = "raised"
              /\ UNCHANGED <<labels, idx>>
    /\ UNCHANGED <<planVars, alignerVars, filterVars, attrVars, objects, caller, n,
                   stitch_result>>

\* return labels; run_sam stores the raster and counts its values
LabelsReturn ==
    /\ pc = "paint"
    /\ idx = Len(ImageMasks)
    /\ self_labels' = Array(labels)
    /\ self_segments' = PyInt(CountUnique(self_labels'))
    /\ last_pass' = "run_sam"
    /\ pc' = "finished"
    /\ UNCHANGED <<planVars, alignerVars, image_lx, image_ly, overlap, self_slice_bboxes,
                   objects, idx, stitchVars, error, thresh_area,
                   thresh_eccentricity, box_safe_margin, edges, box,
                   labels_in>>

InitLabels ==
    /\ image_lx = ManyShape[1] /\ image_ly = ManyShape[2]
    /\ overlap = 1
    /\ objects = <<>>
    /\ image_height = image_ly
    /\ image_width = image_lx
    /\ slice_height = 1
    /\ slice_width = 1
    /\ overlap_height_ratio = 0
    /\ overlap_width_ratio = 0
    /\ PlanLocalsUnset
    /\ FilterDefaults
    /\ PipelineUnset
    /\ NoAligner
    /\ pc = "call"

NextLabels == LabelsEnter \/ LabelsPass \/ LabelsReturn

SpecLabels == InitLabels /\ [][NextLabels]_vars

(***************************************************************************)
(* BrainAligner (src/imaging/mri/aligner.py): the figure is shown and the   *)
(* GUI delivers button-press events.  event.xdata and event.ydata are the  *)
(* data coordinates of a press inside the axes and None for a press        *)
(* outside them.                                                           *)
(***************************************************************************)
\* the largest coordinate of a press and the largest number of presses
MaxClick == 2
MaxPresses == 4
\* GetSize() of the slice of the moving image
MovSize == <<2, 3>>

Float(v) == [type |-> "float", value |-> v]
Tuple(x, y) == [type |-> "tuple", items |-> <<x, y>>]

\* the button-press events: outside the axes, or at a point inside them
Events ==
    {[xdata |-> None, ydata |-> None]}
        \cup {[xdata |-> Float(x), ydata |-> Float(y)] :
                    x \in 0..MaxClick, y \in (-MaxClick)..0}

\* the extent [left, right, bottom, top] __init__ gives the moving image
InitialExtent == <<0, 0 + MovSize[1], 0 - MovSize[2], 0>>

\* the extent move_image computes from dx and dy
MovedExtent(dx, dy) ==
    <<0 - dx, 0 + MovSize[1] - dx, 0 - MovSize[2] - dy, 0 - dy>>

\* click2[k] - click1[k] is defined for two floats; None raises TypeError
CanSubtract(a, b) == a.type = "float" /\ b.type = "float"

\* onclick(event), with move_image when it is the second click
onclick(e) ==
    /\ handled' = handled + 1
    /\ IF IsNone(click1)
       THEN /\ click1' = Tuple(e.xdata, e.ydata)
            /\ UNCHANGED <<click2, connected, extent, moved, error>>
       ELSE /\ connected' = FALSE
            /\ IF /\ CanSubtract(e.xdata, click1.items[1])
                  /\ CanSubtract(e.ydata, click1.items[2])
               THEN /\ extent' =
                            MovedExtent(
                                e.xdata.value - click1.items[1].value,
                                e.ydata.value - click1.items[2].value)
                    /\ moved' = moved + 1
                    /\ click1' = None
                    /\ click2' = None
                    /\ UNCHANGED error
               ELSE \* move_image raises at its first or second line
                    /\ click2' = Tuple(e.xdata, e.ydata)
                    /\ error' = "TypeError"
                    /\ UNCHANGED <<click1, extent, moved>>

\* the GUI delivers a button-press event: the canvas calls the handler if
\* it is connected
ButtonPress ==
    /\ pc = "shown"
    /\ presses < MaxPresses
    /\ presses' = presses + 1
    /\ \E e \in Events :
        /\ event' = e
        /\ IF connected THEN onclick(e)
           ELSE UNCHANGED <<click1, click2, connected, extent, handled,
                            moved, error>>
    /\ UNCHANGED <<planVars, attrVars, objects, idx, stitchVars, filterVars,
                   pc>>

\* BrainAligner.__init__ up to plt.show()
InitAligner ==
    /\ click1 = None /\ click2 = None
    /\ connected = TRUE
    /\ extent = InitialExtent
    /\ event = None
    /\ presses = 0 /\ handled = 0 /\ moved = 0
    /\ image_lx = 1 /\ image_ly = 1
    /\ overlap = 1
    /\ objects = <<>>
    /\ image_height = image_ly
    /\ image_width = image_lx
    /\ slice_height = 1
    /\ slice_width = 1
    /\ overlap_height_ratio = 0
    /\ overlap_width_ratio = 0
    /\ PlanLocalsUnset
    /\ FilterDefaults
    /\ PipelineUnset
    /\ pc = "shown"

SpecAligner == InitAligner /\ [][ButtonPress]_vars

(***************************************************************************)
(* Properties of calculate_slice_bboxes (checked under SpecPlan).          *)
(***************************************************************************)
ValidRatio(num) == 0 <= num /\ num < RatioDen

\* the arguments the planner is specified for
ValidArgs ==
    /\ image_height >= 1 /\ image_width >= 1
    /\ slice_height >= 1 /\ slice_width >= 1
    /\ ValidRatio(overlap_height_ratio) /\ ValidRatio(overlap_width_ratio)

BoxInsideImage(b) ==
    /\ 0 <= BoxXMin(b) /\ BoxXMax(b) <= image_width
    /\ 0 <= BoxYMin(b) /\ BoxYMax(b) <= image_height

Boxes == {slice_bboxes[i] : i \in 1..Len(slice_bboxes)}

\* C1: for valid arguments the returned boxes cover every pixel of the image
\* and no returned box extends outside the image.
C1_BoxesCoverImage ==
    (pc = "returned" /\ ValidArgs) =>
        /\ \A x \in 0..(image_width - 1), y \in 0..(image_height - 1) :
              \E b \in Boxes : InBox(x, y, b)
        /\ \A b \in Boxes : BoxInsideImage(b)

\* a returned plan of several rows and columns whose last column was clamped
\* and whose slices overlap
C1_Witness ==
    /\ pc = "returned" /\ ValidArgs
    /\ Len(slice_bboxes) >= 4
    /\ x_overlap >= 1
    /\ image_width < x_max /\ image_height < y_max

\* C2: when the image is at least as large as the slice on both axes, every
\* returned box has exactly the slice's width and height.
C2_FullSizeTiles ==
    (pc = "returned" /\ ValidArgs
        /\ image_height >= slice_height /\ image_width >= slice_width) =>
        \A b \in Boxes :
            /\ BoxXMax(b) - BoxXMin(b) = slice_width
            /\ BoxYMax(b) - BoxYMin(b) = slice_height

\* a returned plan whose last tile was pulled back from past the image edge
C2_Witness ==
    /\ pc = "returned" /\ ValidArgs
    /\ image_height >= slice_height /\ image_width >= slice_width
    /\ image_width < x_max
    /\ \E i \in 1..Len(slice_bboxes) :
          /\ BoxXMax(slice_bboxes[i]) = image_width
          /\ BoxXMin(slice_bboxes[i]) = image_width - slice_width
          /\ BoxXMin(slice_bboxes[i]) > 0

InvalidConfiguration ==
    \/ slice_height <= 0 \/ slice_width <= 0
    \/ ~ValidRatio(overlap_height_ratio) \/ ~ValidRatio(overlap_width_ratio)

\* C9: with a slice side <= 0 or an overlap ratio outside [0, 1) the planner
\* fails with an error: it never enters its loops and returns no list.
C9_InvalidConfigurationRejected ==
    InvalidConfiguration => pc \notin {"row", "col", "returned"}

\* C10: when the slice is at least as large as the image on both axes, exactly
\* one box is returned, and it is [(0, 0), (image_width, image_height)].
C10_SingleTile ==
    (image_height >= 1 /\ image_width >= 1
        /\ slice_height >= image_height /\ slice_width >= image_width) =>
        /\ Len(slice_bboxes) <= 1
        /\ pc = "returned" =>
              slice_bboxes = <<Box(0, 0, image_width, image_height)>>

\* a returned single-tile plan for a slice strictly larger than the image
C10_Witness ==
    /\ pc = "returned"
    /\ image_height >= 1 /\ image_width >= 1
    /\ slice_height > image_height /\ slice_width > image_width
    /\ Len(slice_bboxes) = 1

(***************************************************************************)
(* Properties of the labeler and the stitcher (checked under Spec).        *)
(***************************************************************************)
TileResults == IF IsList(self_labels) THEN self_labels.items ELSE <<>>

\* the tile rasters are as the labeler left them until stitch_labels starts
BeforeStitch == pc = "sam"

\* the pixels of sorted mask k that no later mask of the list paints over
PaintedLast(sorted, k) ==
    {p \in sorted[k].segmentation :
        \A j \in (k + 1)..Len(sorted) : p \notin sorted[j].segmentation}

\* C3: the mask at 0-based place i of the descending-area order is painted
\* with the value i + 1, so no mask is painted with the background value 0.
C3_PaintsOneBased ==
    BeforeStitch =>
        \A t \in 1..Len(TileResults) :
            LET sorted == SortedMasks(Generate(TileResults[t].crop))
            IN  \A k \in 1..Len(sorted) :
                    \A p \in PaintedLast(sorted, k) :
                        TileResults[t].labels.array[p] = k

\* stitch_labels went through every tile and returned its accumulator
Stitched == pc = "finished" /\ IsArray(stitch_result)

PlanBoxes == self_slice_bboxes.items

BoxPixels(b) == {p \in Pixels(image_lx, image_ly) : InBox(p[1], p[2], b)}

\* the tiles (places in the plan) whose crop shows some pixel of the object
TilesSeeing(obj) ==
    {t \in 1..Len(PlanBoxes) : obj \cap BoxPixels(PlanBoxes[t]) # {}}

\* the nonzero values that the raster holds on the object's pixels
LabelsOn(raster, obj) == {raster[p] : p \in obj} \ {0}

\* the object is one region of the raster: one nonzero label, held by no
\* pixel outside the object
OneRegion(raster, obj) ==
    /\ Cardinality(LabelsOn(raster, obj)) = 1
    /\ \A p \in DOMAIN raster : raster[p] \in LabelsOn(raster, obj) => p \in obj

\* C4: an object reported in exactly one tile, which lies inside that tile
\* and inside no other tile's box, is exactly one region of the raster that
\* stitch_labels returns.
C4_ContainedObjectIsOneRegion ==
    Stitched =>
        \A i \in 1..Len(objects) :
            (/\ Cardinality(TilesSeeing(objects[i])) = 1
             /\ \A t \in TilesSeeing(objects[i]) :
                    objects[i] \subseteq BoxPixels(PlanBoxes[t]))
            => OneRegion(stitch_result.array, objects[i])

\* the object shows in exactly two tiles whose boxes share a band, and it has
\* pixels in the band and in each of the two tiles
Straddles(obj) ==
    /\ Cardinality(TilesSeeing(obj)) = 2
    /\ \E t1, t2 \in TilesSeeing(obj) :
        /\ t1 # t2
        /\ obj \cap BoxPixels(PlanBoxes[t1]) \cap BoxPixels(PlanBoxes[t2]) # {}

\* C5: an object straddling two adjacent tiles, with a fragment in each that
\* touches the shared band, carries exactly one label in the stitched raster.
C5_StraddlingObjectIsOneRegion ==
    Stitched =>
        \A i \in 1..Len(objects) :
            Straddles(objects[i]) =>
                Cardinality(LabelsOn(stitch_result.array, objects[i])) = 1

\* two rasters with the same zero pixels and the same partition into regions
SameUpToRenaming(a, b) ==
    /\ DOMAIN a = DOMAIN b
    /\ \A p \in DOMAIN a : (a[p] = 0) <=> (b[p] = 0)
    /\ \A p, q \in DOMAIN a : (a[p] = a[q]) <=> (b[p] = b[q])

\* stitch_labels returned (or raised) after run_sam_on_sliced_image called it
\* on the results of a plan of k tiles
RanOnTiles(k) ==
    /\ caller = "run_sam_on_sliced_image"
    /\ pc \in {"finished", "raised"}
    /\ Len(PlanBoxes) = k

\* C6: stitching one tile that covers the whole image returns that tile's
\* boundary-eroded label raster up to a renaming of the labels.
C6_SingleTileIsIdentity ==
    (/\ RanOnTiles(1)
     /\ PlanBoxes[1] = Box(0, 0, image_lx, image_ly)
     /\ IsArray(TileData(PlanBoxes[1]).labels))
    => /\ IsArray(stitch_result)
       /\ SameUpToRenaming(stitch_result.array,
                           EraseBoundaries(TileData(PlanBoxes[1]).labels.array))

\* C7: stitching an empty sequence of tile results returns an all-zero raster
\* of the image's shape and raises no error.
C7_EmptySequenceIsZeroRaster ==
    (caller = "client" /\ IsList(self_labels) /\ Len(self_labels.items) = 0)
    => /\ error = ""
       /\ IsArray(stitch_result)
       /\ stitch_result.array = Zeros(image_lx, image_ly)

\* C8: a tile with zero masks is an all-background tile: the labeler returns
\* an all-zero raster of the tile's shape, and the pipeline stitches the
\* tiles without failing.
C8_EmptyTileIsBackground ==
    /\ BeforeStitch =>
        \A t \in 1..Len(TileResults) :
            Generate(TileResults[t].crop) = <<>> =>
                /\ IsArray(TileResults[t].labels)
                /\ \A p \in DOMAIN TileResults[t].labels.array :
                        TileResults[t].labels.array[p] = 0
    /\ caller = "run_sam_on_sliced_image" => pc # "raised"


\* every nonzero value of the raster is held by one 4-connected set of pixels
OneComponentPerLabel(a) ==
    \A p \in DOMAIN a : a[p] # 0 => Carriers(a, a[p]) = Component(a, 1, p)

\* the last re-labelling of an integration step gives the pixels of one
\* 4-connected component of equal nonzero value one label
ComponentsKeptWhole ==
    pc = "relabel2" =>
        \A p \in DOMAIN labels :
            labels[p] # 0 =>
                \A q \in Component(labels, 1, p) : labels'[q] = labels'[p]

\* C11: in the raster that stitch_labels returns every nonzero label is held
\* by exactly one maximal 4-connected component (no two disjoint components
\* share a label), and an integration step never splits a 4-connected
\* component of equal value between two labels.
C11_EachLabelOneComponent ==
    /\ [](Stitched => OneComponentPerLabel(stitch_result.array))
    /\ [][ComponentsKeptWhole]_vars

\* a stitched raster of two regions, one of them of more than one pixel
C11_Witness ==
    /\ Stitched
    /\ \E p, q \in DOMAIN stitch_result.array :
        /\ stitch_result.array[p] # 0 /\ stitch_result.array[q] # 0
        /\ stitch_result.array[p] # stitch_result.array[q]
        /\ Cardinality(Carriers(stitch_result.array,
                                stitch_result.array[p])) >= 2

\* stitch_labels is inside its loop over the tile results
InStitchLoop == pc \in {"composite", "relabel", "merge", "relabel2"}

\* C12: the boundary erasure leaves its input alone: while stitch_labels runs,
\* the raster stored for every tile holds the values the labeler produced.
C12_ErasureLeavesTileRaster ==
    (InStitchLoop /\ IsList(self_labels)) =>
        \A t \in 1..Len(TileResults) :
            TileResults[t].labels = TileData(TileResults[t].crop).labels

(***************************************************************************)
(* Properties of the filters (checked under SpecFilter).                   *)
(***************************************************************************)
\* the last pass was the method `name`, which was given a raster
After(name) == last_pass = name /\ IsArray(labels_in) /\ IsArray(self_labels)

\* C13: a region survives filter_labels_by_shape if and only if its area is
\* within thresh_area, both bounds included, and its eccentricity is not
\* strictly below thresh_eccentricity.
C13_ShapeFilterKeeps ==
    After("filter_labels_by_shape") =>
        \A v \in RegionLabels(labels_in.array) :
            LET region == Carriers(labels_in.array, v)
                kept ==
                    /\ thresh_area[1] <= Cardinality(region)
                    /\ Cardinality(region) <= thresh_area[2]
                    /\ ~EccentricityBelow(region, thresh_eccentricity)
            IN  \A p \in region : (self_labels.array[p] # 0) <=> kept

\* a region whose area is both bounds of thresh_area and whose eccentricity
\* is the threshold went through the filter and survived
C13_Witness ==
    /\ After("filter_labels_by_shape")
    /\ thresh_area[1] = thresh_area[2]
    /\ thresh_eccentricity = EccDen
    /\ \E v \in RegionLabels(labels_in.array) :
        /\ Area(labels_in.array, v) = thresh_area[1]
        /\ ~EccentricityBelow(Carriers(labels_in.array, v),
                              thresh_eccentricity)
        /\ \A p \in Carriers(labels_in.array, v) : self_labels.array[p] # 0

\* C14: after filter_labels_by_shape the region count self.segments is the
\* number of regions that survived; the background is not counted.
C14_CountIsSurvivors ==
    After("filter_labels_by_shape") =>
        self_segments = PyInt(Cardinality(RegionLabels(self_labels.array)))

\* the three filter passes in the order shape, border, box walls, on the
\* raster a, with the way polygon2mask treats the sides of its polygon
FilterChain(a, closed) ==
    BoxWalls(ClearBorder(ShapeFilter(a, image_lx, image_ly),
                         image_lx, image_ly),
             BoxMask(closed))

\* C15: running the same sequence of filter passes (shape, border, box
\* walls, same parameters) on its own output leaves the raster unchanged,
\* for every label raster.
C15_FilterChainIdempotent ==
    IsArray(self_labels) =>
        \A closed \in BOOLEAN :
            LET once == FilterChain(self_labels.array, closed)
            IN  FilterChain(once, closed) = once

\* C16: filter_box_walls zeroes whole regions only: a region with no pixel
\* inside the box is removed, and a region with a pixel inside the box keeps
\* all its pixels and its label.
C16_BoxWallsWholeRegions ==
    After("filter_box_walls") =>
        \A v \in RegionLabels(labels_in.array) :
            LET region == Carriers(labels_in.array, v)
            IN  IF region \cap box = {}
                THEN \A p \in region : self_labels.array[p] = 0
                ELSE \A p \in region : self_labels.array[p] = v

FilterNames ==
    {"filter_labels_by_shape", "filter_labels_on_the_border",
     "filter_box_walls"}

\* C17: after any filter pass the raster uses exactly the labels 0 and 1 .. k
\* with no gaps, k being the number of regions left; also when the border
\* filter or the box filter is the last pass.
C17_LabelsCompact ==
    (last_pass \in FilterNames /\ IsArray(self_labels)) =>
        RegionLabels(self_labels.array) =
            1..Cardinality(RegionLabels(self_labels.array))

(***************************************************************************)
(* Properties of run_sam_on_sliced_image and of the compositing (Spec).    *)
(***************************************************************************)
\* C18: if the detector fails for a tile, run_sam_on_sliced_image ends there:
\* stitch_labels is not called in that run and nothing is composited into a
\* global raster after the failure.
C18_DetectorFailureAborts ==
    error = "DetectorFailure" =>
        /\ pc = "raised"
        /\ caller = ""
        /\ labels = <<>>
        /\ IsNone(stitch_result)
        /\ ~IsArray(self_labels)

\* the detector failed on a tile that was not the first of the plan
C18_Witness ==
    /\ error = "DetectorFailure"
    /\ idx >= 1
    /\ IsList(self_labels)
    /\ Len(self_labels.items) = idx
    /\ idx < Len(PlanBoxes)

(***************************************************************************)
(* Properties of labels_from_sam_masks (checked under SpecRunSam).         *)
(***************************************************************************)
\* the masks that run_sam gave to labels_from_sam_masks
RunSamMasks == Generate(Box(0, 0, image_lx, image_ly))

\* the places in the list of the masks that cover the pixel p
Covering(masks, p) == {i \in 1..Len(masks) : p \in masks[i].segmentation}

\* the label of the mask at place i of the list: the number of masks before
\* it in descending order of area (masks of one area in the list's order),
\* as an 8-bit value
LabelOfMask(masks, i) ==
    Cardinality({j \in 1..Len(masks) :
                    \/ masks[j].area > masks[i].area
                    \/ (masks[j].area = masks[i].area /\ j < i)}) % Uint8Mod

\* C19: at a pixel covered by two or more masks the raster holds the label of
\* a mask of the smallest area among those that cover the pixel.
C19_SmallestMaskWins ==
    (last_pass = "run_sam" /\ IsArray(self_labels)) =>
        \A p \in DOMAIN self_labels.array :
            LET over == Covering(RunSamMasks, p)
            IN  Cardinality(over) >= 2 =>
                    \E i \in over :
                        /\ \A j \in over :
                                RunSamMasks[i].area <= RunSamMasks[j].area
                        /\ self_labels.array[p] = LabelOfMask(RunSamMasks, i)

\* a pixel under three masks of three areas, the largest first in the list
C19_Witness ==
    /\ last_pass = "run_sam" /\ IsArray(self_labels)
    /\ \E p \in DOMAIN self_labels.array :
        /\ Cardinality(Covering(RunSamMasks, p)) = 3
        /\ \A i, j \in Covering(RunSamMasks, p) :
                i < j => RunSamMasks[i].area < RunSamMasks[j].area
        /\ self_labels.array[p] = 2

\* C20: a tile that is not the first along an axis writes no accumulator
\* pixel inside the box of a tile composited before it, so every pixel is
\* written by at most one tile.
C20_SharedBandSkipped ==
    (pc = "relabel" /\ IsList(self_labels)) =>
        LET b == TileResults[n + 1].crop
        IN  (BoxXMin(b) > 0 \/ BoxYMin(b) > 0) =>
                \A t \in 1..n :
                    Written(b) \cap BoxPixels(TileResults[t].crop) = {}

(***************************************************************************)
(* Properties of one integration step of stitch_labels (Spec, SpecForms).   *)
(***************************************************************************)
\* no nonzero pixel of the raster has an 8-neighbour with another nonzero value
NoMixedNeighbours(a) ==
    \A p \in DOMAIN a :
        a[p] # 0 =>
            \A q \in Neighbours(p, 2) \cap DOMAIN a :
                a[q] = 0 \/ a[q] = a[p]

\* C21: after merge_labels_after_stitching no nonzero pixel of the raster,
\* those of the first and last row and column included, has an 8-neighbour
\* that carries a different nonzero label.
C21_MergeLeavesNoMixedNeighbours ==
    pc = "relabel2" => NoMixedNeighbours(labels)

\* the step is the re-labelling that follows the merge pass
RelabelAfterMerge == pc = "relabel2" /\ pc' = "composite"

\* C22: the re-labelling after the merge pass only renumbers: two nonzero
\* pixels carry one label after it if and only if they carried one label
\* right after merge_labels_after_stitching.
C22_RelabelOnlyRenumbers ==
    [][RelabelAfterMerge =>
        \A p, q \in DOMAIN labels :
            (labels[p] # 0 /\ labels[q] # 0) =>
                ((labels'[p] = labels'[q]) <=> (labels[p] = labels[q]))]_vars

\* the detected objects that show at pixel p: those no later object covers
TopObjects(p) ==
    {i \in 1..Len(objects) :
        /\ p \in objects[i]
        /\ \A j \in (i + 1)..Len(objects) : p \notin objects[j]}

\* C23: after the erasure and the compositing of a tile no two 4- or
\* 8-adjacent labelled pixels of the accumulator belong to distinct detected
\* objects, and after the merge pass no two pixels of distinct objects carry
\* the same label.
C23_DistinctObjectsNeverTouch ==
    /\ pc \in {"relabel", "merge"} =>
            \A p \in DOMAIN labels :
                \A q \in Neighbours(p, 2) \cap DOMAIN labels :
                    (labels[p] # 0 /\ labels[q] # 0) =>
                        TopObjects(p) = TopObjects(q)
    /\ pc = "relabel2" =>
            \A p, q \in DOMAIN labels :
                (labels[p] # 0 /\ labels[q] = labels[p]) =>
                    TopObjects(p) = TopObjects(q)

(***************************************************************************)
(* The order of the tiles (Spec).                                          *)
(***************************************************************************)
\* box a comes no later than box b in the row-major order of the planner
RowMajorLeq(a, b) ==
    \/ BoxYMin(a) < BoxYMin(b)
    \/ BoxYMin(a) = BoxYMin(b) /\ BoxXMin(a) <= BoxXMin(b)

\* run_sam_on_sliced_image is in its loop or in the stitch_labels it called
RunSamOnTiles ==
    \/ pc = "sam" /\ idx > 0
    \/ InStitchLoop /\ caller = "run_sam_on_sliced_image"

\* C24: the results are stored one per tile in the order of the plan, the
\* plan is row-major from (0, 0), and the k-th tile copied into the
\* accumulator is the k-th box of the plan.
C24_TilesInPlanOrder ==
    /\ RunSamOnTiles =>
        /\ Len(TileResults) = (IF pc = "sam" THEN idx ELSE Len(PlanBoxes))
        /\ \A t \in 1..Len(TileResults) : TileResults[t].crop = PlanBoxes[t]
        /\ PlanBoxes[1][1] = <<0, 0>>
        /\ \A s, t \in 1..Len(PlanBoxes) :
                s < t => RowMajorLeq(PlanBoxes[s], PlanBoxes[t])
    /\ (RunSamOnTiles /\ pc = "relabel") =>
        LET b == PlanBoxes[n + 1]
        IN  \A p \in Written(b) :
                labels[p] = TileResults[n + 1].labels.array[
                                <<p[1] - BoxXMin(b), p[2] - BoxYMin(b)>>]

\* the last of four tiles in two rows has just been copied, and it shows
\* something
C24_Witness ==
    /\ RunSamOnTiles /\ pc = "relabel"
    /\ Len(PlanBoxes) = 4 /\ n = 3
    /\ BoxYMin(PlanBoxes[2]) = 0 /\ BoxYMin(PlanBoxes[3]) > 0
    /\ \E p \in Written(PlanBoxes[4]) : labels[p] # 0

(***************************************************************************)
(* Termination of calculate_slice_bboxes (SpecPlanFair).                   *)
(***************************************************************************)
\* the arguments for which the loops are said to end: an image may be empty
TerminatingArgs ==
    /\ image_height >= 0 /\ image_width >= 0
    /\ slice_height >= 1 /\ slice_width >= 1
    /\ ValidRatio(overlap_height_ratio) /\ ValidRatio(overlap_width_ratio)

\* a pass of the column loop, and the entry into a further row
ColumnPass == pc = "col" /\ slice_bboxes' # slice_bboxes
FurtherRow == pc = "row" /\ pc' = "col" /\ y_max > 0

\* C25: for an image of height and width >= 0, slices >= 1 and ratios in
\* [0, 1) the call returns; every pass of the column loop and every further
\* row moves the unclamped maximum on by at least one pixel, and a loop is
\* left only when that maximum has reached the image's extent.
C25_PlannerTerminates ==
    /\ TerminatingArgs => <>(pc = "returned")
    /\ [][TerminatingArgs =>
            /\ ColumnPass => x_max' >= x_max + 1
            /\ FurtherRow => y_max' >= y_max + 1
            /\ (pc = "col" /\ pc' = "row") => x_max >= image_width
            /\ pc' = "returned" => y_max >= image_height]_vars

\* a call that returned at least two rows of at least two boxes that overlap
C25_Witness ==
    /\ TerminatingArgs /\ pc = "returned"
    /\ Len(slice_bboxes) >= 4
    /\ x_overlap >= 1 /\ y_overlap >= 1
    /\ y_max > slice_height

(***************************************************************************)
(* The order of the filter passes (SpecFilter).                            *)
(***************************************************************************)
\* the border filter after the shape filter, and before it
ShapeThenBorder(a) ==
    ClearBorder(ShapeFilter(a, image_lx, image_ly), image_lx, image_ly)
BorderThenShape(a) ==
    ShapeFilter(ClearBorder(a, image_lx, image_ly), image_lx, image_ly)

\* the rasters run_sam leaves for a background and one object of any form
OneObjectRasters == [Pixels(image_lx, image_ly) -> {0, 1}]

\* C26: the filter passes do not commute: for the thresholds of the object
\* there is a raster that run_sam can leave on which the border filter
\* followed by the shape filter and the shape filter followed by the border
\* filter give different rasters.
C26_FilterOrderMatters ==
    pc = "call" =>
        \E a \in OneObjectRasters : ShapeThenBorder(a) # BorderThenShape(a)

\* run_sam has left such a raster in self.labels
C26_Witness ==
    /\ last_pass = "run_sam" /\ IsArray(self_labels)
    /\ ShapeThenBorder(self_labels.array) # BorderThenShape(self_labels.array)
    /\ self_labels.array \in OneObjectRasters

(***************************************************************************)
(* What the compositing of stitch_labels writes (Spec).                    *)
(***************************************************************************)
\* the pixels some tile of the plan writes, and those none writes
WrittenByPlan == UNION {Written(PlanBoxes[t]) : t \in 1..Len(PlanBoxes)}
Unwritten == Pixels(image_lx, image_ly) \ WrittenByPlan

SkipWithinPlannerOverlap == overlap <= x_overlap /\ overlap <= y_overlap

\* box b follows box a in its row, or stands under it in the next row
NextInRow(a, b) ==
    /\ BoxYMin(a) = BoxYMin(b) /\ BoxXMin(a) < BoxXMin(b)
    /\ \A t \in 1..Len(PlanBoxes) :
            ~(BoxXMin(a) < BoxXMin(PlanBoxes[t])
                /\ BoxXMin(PlanBoxes[t]) < BoxXMin(b))
NextInColumn(a, b) ==
    /\ BoxXMin(a) = BoxXMin(b) /\ BoxYMin(a) < BoxYMin(b)
    /\ \A t \in 1..Len(PlanBoxes) :
            ~(BoxYMin(a) < BoxYMin(PlanBoxes[t])
                /\ BoxYMin(PlanBoxes[t]) < BoxYMin(b))

\* the pixels from the end of a to the first pixel b writes, on either axis
StripX(a, b) ==
    {p \in Pixels(image_lx, image_ly) :
        BoxXMax(a) <= p[1] /\ p[1] < BoxXMin(b) + overlap}
StripY(a, b) ==
    {p \in Pixels(image_lx, image_ly) :
        BoxYMax(a) <= p[2] /\ p[2] < BoxYMin(b) + overlap}

\* C27, as stated: with self.overlap at most the planner's pixel overlap on
\* both axes every pixel of the image is written by some tile, and with
\* self.overlap above the planner's overlap some pixel is written by none.
C27_GapIffSkipExceedsPlannerOverlap ==
    Stitched =>
        /\ SkipWithinPlannerOverlap => Unwritten = {}
        /\ ~SkipWithinPlannerOverlap => Unwritten # {}

\* C27, amended: with self.overlap at most the planner's pixel overlap on
\* both axes every pixel of the image is written by some tile; between two
\* tiles that follow each other on an axis, the pixels from the end of the
\* earlier one to the first pixel the later one writes are written by no
\* tile (a strip that is not empty exactly when self.overlap exceeds the band
\* the two tiles share).
C27_GapWhereSkipExceedsSharedBand ==
    Stitched =>
        /\ SkipWithinPlannerOverlap => Unwritten = {}
        /\ \A s, t \in 1..Len(PlanBoxes) :
            /\ NextInRow(PlanBoxes[s], PlanBoxes[t]) =>
                    StripX(PlanBoxes[s], PlanBoxes[t]) \subseteq Unwritten
            /\ NextInColumn(PlanBoxes[s], PlanBoxes[t]) =>
                    StripY(PlanBoxes[s], PlanBoxes[t]) \subseteq Unwritten
        /\ Unwritten # {} =>
                \E s, t \in 1..Len(PlanBoxes) :
                    \/ /\ NextInRow(PlanBoxes[s], PlanBoxes[t])
                       /\ StripX(PlanBoxes[s], PlanBoxes[t]) # {}
                    \/ /\ NextInColumn(PlanBoxes[s], PlanBoxes[t])
                       /\ StripY(PlanBoxes[s], PlanBoxes[t]) # {}

\* a stitched image with an unwritten strip between two tiles of a row
C27_Witness ==
    /\ Stitched
    /\ \E s, t \in 1..Len(PlanBoxes) :
        /\ NextInRow(PlanBoxes[s], PlanBoxes[t])
        /\ StripX(PlanBoxes[s], PlanBoxes[t]) # {}
        /\ StripX(PlanBoxes[s], PlanBoxes[t]) \subseteq Unwritten

\* a step of the integration of a tile, and the pixels it copies from the tile
IntegrationStep ==
    InStitchLoop /\ pc' \in {"composite", "relabel", "merge", "relabel2"}
CopiedNow ==
    IF pc = "composite" THEN Written(self_labels.items[n + 1].crop) ELSE {}

\* C28: no step of the integration of a tile (composite, relabel, merge,
\* relabel) turns a background pixel of the accumulator into a labelled one
\* or a labelled one into background outside the rectangle the tile writes.
C28_IntegrationKeepsBackground ==
    [][IntegrationStep =>
        \A p \in DOMAIN labels \ CopiedNow :
            (labels'[p] = 0) <=> (labels[p] = 0)]_vars

\* the merge pass has renamed a label of the accumulator: the raster it
\* leaves, with background in it, is no longer the one the labelling gave
C28_Witness ==
    /\ pc = "relabel2"
    /\ labels # Label(labels, image_lx, image_ly, connectivity)
    /\ \E p \in DOMAIN labels : labels[p] = 0

(***************************************************************************)
(* The width of the label raster (SpecLabels).                             *)
(***************************************************************************)
\* mask j of the detector's list is painted after mask i: it is smaller, or as
\* large and later in the list
PaintedAfter(j, i) ==
    \/ ImageMasks[j].area < ImageMasks[i].area
    \/ ImageMasks[j].area = ImageMasks[i].area /\ j > i

\* the masks that show at pixel p: those that cover p and are painted after
\* every other mask that covers p
Showing(p) ==
    LET over == {i \in 1..Len(ImageMasks) : p \in ImageMasks[i].segmentation}
    IN  {i \in over : \A j \in over : ~PaintedAfter(j, i)}

\* a pass of the loop that stored its index
StoringPass == pc = "paint" /\ idx' = idx + 1

\* the pass for index idx leaves idx modulo 256 in some pixel, and every
\* pixel holds that value or the value it had
StoredModulo ==
    [][StoringPass =>
        /\ \E p \in DOMAIN labels : labels'[p] = idx % Uint8Mod
        /\ \A p \in DOMAIN labels :
            labels'[p] = idx % Uint8Mod \/ labels'[p] = labels[p]]_vars

\* with at most 256 masks, pixels that show distinct masks hold distinct values
DistinctUpTo256 ==
    (pc = "finished" /\ IsArray(self_labels)
        /\ Len(ImageMasks) <= Uint8Mod) =>
        \A p, q \in DOMAIN self_labels.array :
            Showing(p) # Showing(q) =>
                self_labels.array[p] # self_labels.array[q]

\* C29, as stated: every index i is stored, as i mod 256, and the stored
\* values of distinct masks are pairwise distinct when the tile has at most
\* 256 masks.
C29_EveryIndexStoredModulo256 ==
    /\ [](error # "OverflowError")
    /\ StoredModulo
    /\ []DistinctUpTo256

\* C29, amended: an index below 256 is always stored, as itself; storing an
\* index of 256 or more either stores it modulo 256 or raises OverflowError;
\* the stored values of distinct masks are pairwise distinct when the tile
\* has at most 256 masks.
C29_StoredModulo256OrOverflow ==
    /\ [](error = "OverflowError" => idx >= Uint8Mod)
    /\ StoredModulo
    /\ []DistinctUpTo256

\* more than 256 masks, labelled to the end: two pixels that show distinct
\* masks hold the same value
C29_Witness ==
    /\ pc = "finished" /\ IsArray(self_labels)
    /\ Len(ImageMasks) > Uint8Mod
    /\ \E p, q \in DOMAIN self_labels.array :
        /\ Showing(p) # Showing(q)
        /\ self_labels.array[p] = self_labels.array[q]
        /\ self_labels.array[p] # 0

(***************************************************************************)
(* The clicks of BrainAligner (SpecAligner).                               *)
(***************************************************************************)
\* a call of onclick
OnclickCall == handled' = handled + 1

\* the extent moved by (dx, dy): left and right by dx, bottom and top by dy
Shifted(ext, dx, dy) == <<ext[1] + dx, ext[2] + dx, ext[3] + dy, ext[4] + dy>>

\* the moving image is shifted by click2 - click1, click2 being the event of
\* the call
ShiftedByClicks ==
    /\ CanSubtract(event'.xdata, click1.items[1])
    /\ CanSubtract(event'.ydata, click1.items[2])
    /\ extent' = Shifted(extent,
                         event'.xdata.value - click1.items[1].value,
                         event'.ydata.value - click1.items[2].value)

\* C30: the first click only records click1; the second click disconnects
\* the handler, shifts the moving image by click2 - click1 and leaves click1
\* and click2 None; the image is moved at most once, at most two clicks are
\* processed, and click2 is never set while click1 is None.
C30_TwoClicksMoveOnce ==
    /\ [][OnclickCall =>
            IF IsNone(click1)
            THEN /\ click1' = Tuple(event'.xdata, event'.ydata)
                 /\ UNCHANGED <<click2, connected, extent, moved>>
            ELSE /\ ~connected'
                 /\ ShiftedByClicks
                 /\ IsNone(click1') /\ IsNone(click2')]_vars
    /\ [](moved <= 1)
    /\ [](handled <= 2)
    /\ [](~IsNone(click2) => ~IsNone(click1))

=============================================================================
